---- MODULE Spec2Model ----
(***************************************************************************)
(* Model of app.py, the Streamlit PCB defect detector: the page router and *)
(* its in-memory credential store, the prediction page (model loading,     *)
(* upload decoding, inference) and the synthesis of the "Suggested         *)
(* Solutions" section from the detected class labels.                      *)
(*                                                                         *)
(* A state is what a session holds between two script runs: the session    *)
(* state (logged_in, page, users, username), the st.cache_resource entry   *)
(* of load_model, the file held by the uploader widget, and the elements   *)
(* the last script run put on the page.  An action is one user interaction *)
(* followed by the script run(s) it triggers, up to the rendered page.     *)
(*                                                                         *)
(* A class label is a sequence of one-character strings, so that           *)
(* str.lower() and str.replace() are computed character by character.      *)
(***************************************************************************)
EXTENDS Integers, Sequences, FiniteSets, TLC

VARIABLES
    logged_in,      \* st.session_state.logged_in
    page,           \* st.session_state.page
    users,          \* st.session_state.users: username -> sha256 hex digest
    username,       \* st.session_state.username (unset until the first login)
    model_cache,    \* the st.cache_resource entry of load_model()
    uploaded_file,  \* the file held by the st.file_uploader widget
    out,            \* the elements rendered by the last script run
    prev            \* history: the report of the run before a re-upload

vars == <<logged_in, page, users, username, model_cache, uploaded_file, out, prev>>

session == <<logged_in, page, users, username>>

---------------------------------------------------------------------------
(* Bounds of the model.                                                    *)

\* The largest number of boxes the vision model returns for one image.
MaxDet == 3

---------------------------------------------------------------------------
(* Strings.                                                                *)

UpperCase == <<"A", "B", "C", "D", "E", "F", "G", "H", "I", "J", "K", "L", "M",
               "N", "O", "P", "Q", "R", "S", "T", "U", "V", "W", "X", "Y", "Z">>

LowerCase == <<"a", "b", "c", "d", "e", "f", "g", "h", "i", "j", "k", "l", "m",
               "n", "o", "p", "q", "r", "s", "t", "u", "v", "w", "x", "y", "z">>

\* The characters of the labels.
Chars == {UpperCase[i] : i \in DOMAIN UpperCase} \cup {LowerCase[i] : i \in DOMAIN LowerCase}
            \cup {"_", " "}

\* str.lower() on one ASCII character: a capital becomes its small letter and
\* every other character stays.
LowerChar ==
    [c \in Chars |->
        IF \E i \in DOMAIN UpperCase : UpperCase[i] = c
        THEN LowerCase[CHOOSE i \in DOMAIN UpperCase : UpperCase[i] = c]
        ELSE c]

\* str.lower()
lower(s) == [i \in DOMAIN s |-> LowerChar[s[i]]]

\* str.replace('_', ' ')
replace(s) == [i \in DOMAIN s |-> IF s[i] = "_" THEN " " ELSE s[i]]

Missing_hole    == <<"M", "i", "s", "s", "i", "n", "g", "_", "h", "o", "l", "e">>
Mouse_bite      == <<"M", "o", "u", "s", "e", "_", "b", "i", "t", "e">>
Open_circuit    == <<"O", "p", "e", "n", "_", "c", "i", "r", "c", "u", "i", "t">>
Short           == <<"S", "h", "o", "r", "t">>
Spur            == <<"S", "p", "u", "r">>
Spurious_copper == <<"S", "p", "u", "r", "i", "o", "u", "s", "_", "c", "o", "p", "p", "e", "r">>

\* Labels a model's names table may hold that are not keys of the table.
short_lc        == <<"s", "h", "o", "r", "t">>
missing_hole_lc == <<"m", "i", "s", "s", "i", "n", "g", "_", "h", "o", "l", "e">>
SPUR_uc         == <<"S", "P", "U", "R">>
Unknown_defect  == <<"U", "n", "k", "n", "o", "w", "n", "_", "d", "e", "f", "e", "c", "t">>

---------------------------------------------------------------------------
(* The remediation table, in the dict's insertion order.                   *)

DEFECT_SOLUTIONS == <<
    [key |-> Missing_hole,
     description |-> "A hole that was supposed to be drilled is absent.",
     solution |-> "1. Review the drilling program for errors. 2. Manually drill the missing hole if possible. 3. Re-fabricate the board if the defect is critical."],
    [key |-> Mouse_bite,
     description |-> "A small indentation or nick on the edge of a trace or pad.",
     solution |-> "1. Check for mechanical damage during handling. 2. For minor bites, the board may pass quality checks. 3. For severe bites, the board must be rejected to prevent an open circuit."],
    [key |-> Open_circuit,
     description |-> "A break in a copper trace, preventing electrical flow.",
     solution |-> "1. Use a continuity tester to confirm the break. 2. Repair by soldering a jumper wire across the break. 3. If repair is not feasible, the board must be discarded."],
    [key |-> Short,
     description |-> "Two separate traces are accidentally connected, creating a path for electrical flow where there should not be one.",
     solution |-> "1. Use a multimeter to locate the short. 2. Carefully scrape the copper to remove the short. 3. Check for any solder bridges or foreign material causing the short."],
    [key |-> Spur,
     description |-> "A sharp protrusion extending from a trace, potentially causing a short with other components.",
     solution |-> "1. Carefully scrape the copper to remove the spur. 2. Use a microscope to ensure the entire spur has been removed. 3. Check for shorts after repair."],
    [key |-> Spurious_copper,
     description |-> "Unwanted copper residue that may cause shorts or other issues.",
     solution |-> "1. Carefully remove the spurious copper using appropriate etching or mechanical methods. 2. Check surrounding areas for additional copper residue. 3. Test for shorts after removal."] >>

\* DEFECT_SOLUTIONS.keys()
Keys == {DEFECT_SOLUTIONS[i].key : i \in DOMAIN DEFECT_SOLUTIONS}

\* DEFECT_SOLUTIONS[key]
Record(key) ==
    DEFECT_SOLUTIONS[CHOOSE i \in DOMAIN DEFECT_SOLUTIONS : DEFECT_SOLUTIONS[i].key = key]

---------------------------------------------------------------------------
(* Rendered elements.  label is the class label an element is about (<<>>  *)
(* when it is about none), title its display form, text the message or the *)
(* remediation text, branch the branch of the lookup that emitted it.      *)

NoLabel == <<>>

Msg(kind, text) ==
    [kind |-> kind, label |-> NoLabel, title |-> NoLabel, text |-> text,
     branch |-> "none", conf |-> 0]

\* Line 177: one line per box, with the confidence in hundredths.
DetectedLine(box) ==
    [kind |-> "detected", label |-> box.cls, title |-> replace(box.cls),
     text |-> "Confidence", branch |-> "none", conf |-> box.conf]

LookingLine(defect) ==
    [kind |-> "looking", label |-> defect, title |-> NoLabel,
     text |-> "Looking for solution for", branch |-> "none", conf |-> 0]

\* Lines 198-201 and 208-211: the expander with the repair steps.
SolutionExpander(defect, text, branch) ==
    [kind |-> "solution", label |-> defect, title |-> replace(defect),
     text |-> text, branch |-> branch, conf |-> 0]

\* Line 214.
NoSolutionWarning(defect) ==
    [kind |-> "no_solution", label |-> defect, title |-> NoLabel,
     text |-> "No solution available for defect type", branch |-> "none", conf |-> 0]

---------------------------------------------------------------------------
(* The synthesis of the "Suggested Solutions" section, lines 189-217.      *)

\* Line 196: defect in DEFECT_SOLUTIONS
ExactMatchMutant(defect) == lower(defect) \in Keys
ExactMatch(defect) == defect \in Keys

\* Line 206: defect.lower() == solution_key.lower()
CaseMatchMutant(defect, solution_key) == lower(defect) = solution_key
CaseMatch(defect, solution_key) == lower(defect) = lower(solution_key)

\* Lines 205-212: the index of the first key, in table order, that matches
\* case-insensitively; 0 when the loop ends without a break.
FirstMatch(defect) ==
    IF \E i \in DOMAIN DEFECT_SOLUTIONS : CaseMatch(defect, DEFECT_SOLUTIONS[i].key)
    THEN CHOOSE i \in DOMAIN DEFECT_SOLUTIONS :
            /\ CaseMatch(defect, DEFECT_SOLUTIONS[i].key)
            /\ \A j \in 1..(i - 1) : ~CaseMatch(defect, DEFECT_SOLUTIONS[j].key)
    ELSE 0

\* Line 210: the text written for a fallback match.
FallbackTextMutant(solution_key) == Record(solution_key).description
FallbackText(solution_key) == Record(solution_key).solution

\* Lines 193-214: the body of the loop for one unique defect.
HandleDefectMutant(defect) ==
    IF ExactMatch(defect)
    THEN <<LookingLine(defect),
           SolutionExpander(defect, Record(defect).solution, "exact")>>
    ELSE LET m == FirstMatch(defect)
             n == IF m = 0 THEN Len(DEFECT_SOLUTIONS) ELSE m - 1
         IN  <<LookingLine(defect)>> \o [i \in 1..n |-> NoSolutionWarning(defect)] \o
             (IF m = 0 THEN <<>>
              ELSE <<SolutionExpander(defect, FallbackText(DEFECT_SOLUTIONS[m].key),
                                      "fallback")>>)
HandleDefect(defect) ==
    IF ExactMatch(defect)
    THEN <<LookingLine(defect),
           SolutionExpander(defect, Record(defect).solution, "exact")>>
    ELSE IF FirstMatch(defect) # 0
    THEN <<LookingLine(defect),
           SolutionExpander(defect,
                            FallbackText(DEFECT_SOLUTIONS[FirstMatch(defect)].key),
                            "fallback")>>
    ELSE <<LookingLine(defect), NoSolutionWarning(defect)>>

\* Lines 197 and 207: whether handling defect sets solutions_found.
SetsSolutionsFound(defect) == ExactMatch(defect) \/ FirstMatch(defect) # 0

\* Lines 192-214: the loop over unique_defects in the order the set yields.
RECURSIVE LoopOverMutant(_)
LoopOverMutant(order) ==
    IF order = <<>> THEN <<>>
    ELSE IF ~SetsSolutionsFound(Head(order)) THEN HandleDefect(Head(order))
    ELSE HandleDefect(Head(order)) \o LoopOverMutant(Tail(order))
RECURSIVE LoopOver(_)
LoopOver(order) ==
    IF order = <<>> THEN <<>>
    ELSE HandleDefect(Head(order)) \o LoopOver(Tail(order))

\* Lines 189-217 for one enumeration order of the set.
Synthesize(order) ==
    LET solutions_found == \E i \in DOMAIN order : SetsSolutionsFound(order[i])
    IN  LoopOver(order) \o
        (IF solutions_found THEN <<>>
         ELSE <<Msg("info", "No matching solutions found for the detected defects.")>>)

\* Line 189: unique_defects = set(detected_defects)
unique_defects(boxes) == {boxes[i].cls : i \in DOMAIN boxes}

\* The orders in which iterating a set may yield its elements.
Orders(S) ==
    {o \in [1..Cardinality(S) -> S] : \A i, j \in DOMAIN o : i # j => o[i] # o[j]}

---------------------------------------------------------------------------
(* Uploaded files and what the vision model returns for them.              *)

\* Line 161: conf=0.25, in hundredths.
ConfThreshold == 25

\* Confidences of the boxes, in hundredths, all above the threshold.
Confs == {c \in {30, 40, 91} : c >= ConfThreshold}

\* Class labels of the images a session uploads.
Labels == {Short, short_lc, Unknown_defect}

\* Class labels of the images the synthesis alone is run on.
AllLabels == Keys \cup {short_lc, missing_hole_lc, SPUR_uc, Unknown_defect}

\* r.boxes: at most MaxDet boxes, listed by descending confidence.
BoxSeqs(L, C) ==
    UNION {{b \in [1..n -> [cls : L, conf : C]] :
               \A i \in 1..(n - 1) : b[i].conf >= b[i + 1].conf} : n \in 0..MaxDet}

NoFile == [kind |-> "none", has_result |-> FALSE, boxes |-> <<>>]

\* A file Image.open() cannot decode.
BadFile == [kind |-> "bad", has_result |-> FALSE, boxes |-> <<>>]

\* A decodable image for which the model returns an empty results list.
NoResultImage == [kind |-> "image", has_result |-> FALSE, boxes |-> <<>>]

Images(L, C) == {[kind |-> "image", has_result |-> TRUE, boxes |-> b] : b \in BoxSeqs(L, C)}

Files == {BadFile, NoResultImage} \cup Images(Labels, Confs)

---------------------------------------------------------------------------
(* load_model, lines 48-57, behind st.cache_resource.                      *)

ModelFileError == Msg("error", "Error: The model file was not found.")

\* An exception no handler catches: Streamlit shows it and ends the run.
UncaughtException == Msg("exception", "Traceback")

\* The outcomes of one call: the cache entry after it, what it returns and
\* the elements it renders.  A cached None replays its st.error; an
\* exception other than FileNotFoundError is not caught and caches nothing.
load_model(cache) ==
    IF cache = "loaded"
    THEN {[cache |-> "loaded", model |-> "loaded", msgs |-> <<>>]}
    ELSE IF cache = "none"
    THEN {[cache |-> "none", model |-> "none", msgs |-> <<ModelFileError>>]}
    ELSE {[cache |-> "loaded", model |-> "loaded", msgs |-> <<>>],
          [cache |-> "none", model |-> "none", msgs |-> <<ModelFileError>>],
          [cache |-> "unloaded", model |-> "raised", msgs |-> <<UncaughtException>>]}

---------------------------------------------------------------------------
(* show_prediction_page, lines 144-225.                                    *)

\* Lines 146-147: if model is None: return
AbortsOnNoneMutant(model) == FALSE
AbortsOnNone(model) == model = "none"

\* Lines 224-225: st.error(f"An error occurred: {e}")
ErrorOccurred == Msg("error", "An error occurred")

\* Lines 155-156 and 224-225: what the page renders when Image.open() raises.
DecodeFailureMutant == <<UncaughtException>>
DecodeFailure == <<ErrorOccurred>>

UploadedImage == Msg("image", "Uploaded Image")

\* Line 171: if r.boxes
HasBoxesMutant(boxes) == TRUE
HasBoxes(boxes) == boxes # <<>>

\* Lines 172-217: the detected lines, then the suggested solutions.
DefectsSection(boxes) ==
    {[i \in DOMAIN boxes |-> DetectedLine(boxes[i])] \o Synthesize(o) :
        o \in Orders(unique_defects(boxes))}

\* Lines 160-222: the run of the 'Detect Defects' button.
DetectionSection(model, file) ==
    IF model # "loaded"
    THEN {<<ErrorOccurred>>}   \* calling None raises inside the try block
    ELSE IF ~file.has_result
    THEN {<<Msg("warning", "Could not get a result from the model.")>>}
    ELSE IF HasBoxes(file.boxes)
    THEN {<<Msg("results", "Detection Results")>> \o s : s \in DefectsSection(file.boxes)}
    ELSE {<<Msg("results", "Detection Results"),
            Msg("info", "No defects were detected in this image.")>>}

\* The elements the page renders after load_model returned model, with file
\* in the uploader and the button clicked or not.
show_prediction_page(model, file, clicked) ==
    IF AbortsOnNone(model) THEN {<<>>}
    ELSE IF file.kind = "none" THEN {<<>>}
    ELSE IF file.kind = "bad" THEN {DecodeFailure}
    ELSE IF ~clicked THEN {<<UploadedImage>>}
    ELSE {<<UploadedImage>> \o d : d \in DetectionSection(model, file)}

---------------------------------------------------------------------------
(* The credential store and the page router, lines 229-265.                *)

\* hashlib.sha256(password.encode()).hexdigest()
sha256(password) ==
    CASE password = "password123" ->
            "ef92b778bafe771e89245b89ecbc08a44a4e166c06659911881f383d4473e94f"
      [] password = "securepass" ->
            "fbb4a8a163ffa958b4f02bf9cabb30cfefb40de803f2c4c346a9d39b3be1b544"
      [] password = "pw" ->
            "30c952fab122c3f9759f02a6d95c3758b246b4fee239957b2d4fee46e26170c4"
      [] password = "" ->
            "e3b0c44298fc1c149afbf4c8996fb92427ae41e4649b934ca495991b7852b855"

\* What a user types in the forms.
Usernames == {"", "testuser", "alice"}
Passwords == {"", "password123", "pw"}

\* session_state.username before the first login.
Unset == "(unset)"

\* Lines 235-238.
SeedUsers == [u \in {"testuser", "john.doe"} |->
                 IF u = "testuser" THEN sha256("password123") ELSE sha256("securepass")]

\* Lines 254-265: the page shown for the session state; an inconsistent
\* state falls back to home.
Route(lg, pg) ==
    IF pg \in {"home", "signup", "login"} THEN pg
    ELSE IF lg /\ pg = "prediction" THEN pg
    ELSE "home"

\* The script run that follows a handler: the router, then the page.
Run(lg, pg, us, un, file, clicked, msgs) ==
    /\ logged_in' = lg
    /\ page' = Route(lg, pg)
    /\ users' = us
    /\ username' = un
    /\ IF Route(lg, pg) = "prediction"
       THEN \E r \in load_model(model_cache) :
               /\ model_cache' = r.cache
               /\ IF r.model = "raised"
                  THEN /\ uploaded_file' = NoFile
                       /\ out' = r.msgs
                  ELSE /\ uploaded_file' = (IF AbortsOnNone(r.model) THEN NoFile ELSE file)
                       /\ \E o \in show_prediction_page(r.model, file, clicked) :
                             out' = r.msgs \o o
       ELSE /\ model_cache' = model_cache
            /\ uploaded_file' = NoFile
            /\ out' = msgs

Rerun(lg, pg, us, un, file, clicked, msgs) ==
    /\ Run(lg, pg, us, un, file, clicked, msgs)
    /\ prev' = prev

\* The uploader and its button are on the page: lines 146-152.
UploaderShown ==
    /\ page = "prediction"
    /\ \/ model_cache = "loaded"
       \/ model_cache = "none" /\ ~AbortsOnNone("none")

\* The report of one synthesis: the unique labels, the resolved labels with
\* the text shown for each, and the unresolved labels.
NoReport == [labels |-> {}, resolved |-> {}, unresolved |-> {}, set |-> FALSE]

Init ==
    /\ logged_in = FALSE
    /\ page = "home"
    /\ users = SeedUsers
    /\ username = Unset
    /\ model_cache = "unloaded"
    /\ uploaded_file = NoFile
    /\ out = <<>>
    /\ prev = NoReport

\* Lines 87-89.
ClickSignUp ==
    /\ page = "home"
    /\ Rerun(logged_in, "signup", users, username, NoFile, FALSE, <<>>)

\* Lines 90-92.
ClickLogIn ==
    /\ page = "home"
    /\ Rerun(logged_in, "login", users, username, NoFile, FALSE, <<>>)

\* Lines 116 and 140.
BackToHome ==
    /\ page \in {"signup", "login"}
    /\ Rerun(logged_in, "home", users, username, NoFile, FALSE, <<>>)

\* Line 117.
AlreadyHaveAccount ==
    /\ page = "signup"
    /\ Rerun(logged_in, "login", users, username, NoFile, FALSE, <<>>)

\* Line 141.
NeedAnAccount ==
    /\ page = "login"
    /\ Rerun(logged_in, "signup", users, username, NoFile, FALSE, <<>>)

\* Lines 105-113: the credential store, the page and the message after a
\* sign-up submit.
signupMutant(us, pg, new_username, new_password) ==
    IF new_username = "" \/ new_password = ""
    THEN [users |-> us, page |-> pg,
          msgs |-> <<Msg("error", "Username and password cannot be empty.")>>]
    ELSE [users |-> [u \in DOMAIN us \cup {new_username} |->
                       IF u = new_username THEN sha256(new_password) ELSE us[u]],
          page |-> "login", msgs |-> <<>>]
signup(us, pg, new_username, new_password) ==
    IF new_username = "" \/ new_password = ""
    THEN [users |-> us, page |-> pg,
          msgs |-> <<Msg("error", "Username and password cannot be empty.")>>]
    ELSE IF new_username \in DOMAIN us
    THEN [users |-> us, page |-> pg,
          msgs |-> <<Msg("error", "Username already exists. Please choose a different one.")>>]
    ELSE [users |-> [u \in DOMAIN us \cup {new_username} |->
                       IF u = new_username THEN sha256(new_password) ELSE us[u]],
          page |-> "login", msgs |-> <<>>]

\* Lines 104-113.
SignupSubmit(new_username, new_password) ==
    /\ page = "signup"
    /\ LET r == signup(users, page, new_username, new_password)
       IN  Rerun(logged_in, r.page, r.users, username, NoFile, FALSE, r.msgs)

\* Line 131: username in users and users[username] == password_hash
CredentialsOkMutant(us, name, password) ==
    \E u \in DOMAIN us : us[u] = sha256(password)
CredentialsOk(us, name, password) ==
    name \in DOMAIN us /\ us[name] = sha256(password)

\* Lines 129-137.
LoginSubmit(name, password) ==
    /\ page = "login"
    /\ IF CredentialsOk(users, name, password)
       THEN Rerun(TRUE, "prediction", users, name, NoFile, FALSE, <<>>)
       ELSE Rerun(logged_in, page, users, username, NoFile, FALSE,
                  <<Msg("error", "Invalid username or password")>>)

\* Lines 243-245.
GoToDetector ==
    /\ logged_in
    /\ Rerun(logged_in, "prediction", users, username,
             IF page = "prediction" THEN uploaded_file ELSE NoFile, FALSE, <<>>)

\* Lines 246-249.
Logout ==
    /\ logged_in
    /\ Rerun(FALSE, "home", users, username, NoFile, FALSE, <<>>)

\* Line 152: the user puts a file in the empty uploader.
Upload(file) ==
    /\ UploaderShown
    /\ uploaded_file = NoFile
    /\ Rerun(logged_in, page, users, username, file, FALSE, <<>>)

\* Line 152: the user removes the file from the uploader.
RemoveFile ==
    /\ UploaderShown
    /\ uploaded_file # NoFile
    /\ Rerun(logged_in, page, users, username, NoFile, FALSE, <<>>)

\* Line 159: the button is on the page once the upload decoded.
DetectDefects ==
    /\ UploaderShown
    /\ uploaded_file.kind = "image"
    /\ Rerun(logged_in, page, users, username, uploaded_file, TRUE, <<>>)

Next ==
    \/ ClickSignUp
    \/ ClickLogIn
    \/ BackToHome
    \/ AlreadyHaveAccount
    \/ NeedAnAccount
    \/ \E u \in Usernames, p \in Passwords : SignupSubmit(u, p)
    \/ \E u \in Usernames, p \in Passwords : LoginSubmit(u, p)
    \/ GoToDetector
    \/ Logout
    \/ \E f \in Files : Upload(f)
    \/ RemoveFile
    \/ DetectDefects

Spec == Init /\ [][Next]_vars

---------------------------------------------------------------------------
(* The synthesis alone: a logged-in session with the model loaded and one  *)
(* image over all the labels in the uploader, and one click of the button. *)

SynthConfs == {91}

LoggedInWith(file) ==
    /\ logged_in = TRUE
    /\ page = "prediction"
    /\ users = SeedUsers
    /\ username = "testuser"
    /\ model_cache = "loaded"
    /\ uploaded_file = file
    /\ out = <<UploadedImage>>
    /\ prev = NoReport

InitSynth == \E f \in Images(AllLabels, SynthConfs) : LoggedInWith(f)

FirstDetect ==
    /\ out = <<UploadedImage>>
    /\ DetectDefects

NextSynth == FirstDetect

SpecSynth == InitSynth /\ [][NextSynth]_vars

---------------------------------------------------------------------------
(* Two runs of the synthesis: after a run the user replaces the image by   *)
(* one whose boxes carry the same labels, in another order or with other   *)
(* multiplicities, and prev keeps the report of the run before.            *)

PairLabels == {Short, short_lc, Unknown_defect, SPUR_uc}

\* The report read off the rendered page.
Report(o) ==
    [labels |-> {o[i].label : i \in {j \in DOMAIN o : o[j].kind = "detected"}},
     resolved |-> {<<o[i].label, o[i].text>> : i \in {j \in DOMAIN o : o[j].kind = "solution"}},
     unresolved |-> {o[i].label : i \in {j \in DOMAIN o : o[j].kind = "no_solution"}},
     set |-> TRUE]

InitPair == \E f \in Images(PairLabels, SynthConfs) : LoggedInWith(f)

Reupload(file) ==
    /\ UploaderShown
    /\ \E i \in DOMAIN out : out[i].kind = "detected"
    /\ unique_defects(file.boxes) = unique_defects(uploaded_file.boxes)
    /\ Run(logged_in, page, users, username, file, FALSE, <<>>)
    /\ prev' = Report(out)

NextPair ==
    \/ DetectDefects
    \/ \E f \in Images(PairLabels, SynthConfs) : Reupload(f)

SpecPair == InitPair /\ [][NextPair]_vars

---------------------------------------------------------------------------
(* What the claims read off the rendered page.                             *)

\* The synthesis ran in the last script run.
SynthesisRan == \E i \in DOMAIN out : out[i].kind = "detected"

\* The unique labels of the boxes listed on the page.
UniqueLabels == {out[i].label : i \in {j \in DOMAIN out : out[j].kind = "detected"}}

IsSolution(m) == m.kind = "solution"
IsNoSolution(m) == m.kind = "no_solution"

\* resolved: the solution expanders, in the order rendered.
ResolvedSeq == SelectSeq(out, IsSolution)

\* unresolved: the 'No solution available' warnings, in the order rendered.
UnresolvedSeq == SelectSeq(out, IsNoSolution)

ResolvedLabels == {ResolvedSeq[i].label : i \in DOMAIN ResolvedSeq}
UnresolvedLabels == {UnresolvedSeq[i].label : i \in DOMAIN UnresolvedSeq}

\* The number of elements of the given kind rendered for a label.
Count(kind, label) ==
    Cardinality({i \in DOMAIN out : out[i].kind = kind /\ out[i].label = label})

\* A table key equal to the label up to letter case.
Matches(label) == {k \in Keys : lower(label) = lower(k)}

\* The inference ran in the last script run.
InferenceRan == \E i \in DOMAIN out : out[i].kind \in {"results", "warning"}

---------------------------------------------------------------------------
(* The claims.                                                             *)

\* C1: the synthesis handles each distinct detected label exactly once and
\* puts it in exactly one of resolved and unresolved; a resolved label equals
\* a table key exactly or up to case, an unresolved label matches no key up
\* to case, and the two groups are disjoint and cover the unique labels.
C1_Partition ==
    SynthesisRan =>
        /\ \A l \in UniqueLabels :
              /\ Count("looking", l) = 1
              /\ Count("solution", l) + Count("no_solution", l) = 1
        /\ Len(ResolvedSeq) + Len(UnresolvedSeq) = Cardinality(UniqueLabels)
        /\ ResolvedLabels \cup UnresolvedLabels = UniqueLabels
        /\ ResolvedLabels \cap UnresolvedLabels = {}
        /\ \A l \in ResolvedLabels : l \in Keys \/ Matches(l) # {}
        /\ \A l \in UnresolvedLabels : Matches(l) = {}

C1_Witness ==
    /\ SynthesisRan
    /\ UniqueLabels = {Mouse_bite, missing_hole_lc, Unknown_defect}
    /\ ResolvedLabels = {Mouse_bite, missing_hole_lc}
    /\ UnresolvedLabels = {Unknown_defect}

\* C2: a detected label that differs from a table key only in letter case
\* resolves, and the text shown for it is the solution text stored under that
\* key, unmodified.
C2_CaseInsensitiveText ==
    SynthesisRan =>
        \A l \in UniqueLabels : \A k \in Keys :
            (l \notin Keys /\ lower(l) = lower(k)) =>
                /\ Count("solution", l) = 1
                /\ Count("no_solution", l) = 0
                /\ \A i \in DOMAIN out :
                      (out[i].kind = "solution" /\ out[i].label = l) =>
                          out[i].text = Record(k).solution

C2_Witness ==
    /\ SynthesisRan
    /\ missing_hole_lc \in ResolvedLabels
    /\ SPUR_uc \in ResolvedLabels

\* C6: a key of the table given as a detected label resolves to its own
\* record through the exact-match branch, never through the fallback loop.
C6_RoundTrip ==
    SynthesisRan =>
        \A l \in UniqueLabels \cap Keys :
            /\ Count("solution", l) = 1
            /\ \A i \in DOMAIN out :
                  (out[i].kind = "solution" /\ out[i].label = l) =>
                      /\ out[i].branch = "exact"
                      /\ out[i].text = Record(l).solution

C6_Witness ==
    /\ SynthesisRan
    /\ UniqueLabels = {Open_circuit, Spur, Spurious_copper}
    /\ ResolvedLabels = UniqueLabels

\* C7: the resolved labels, the text each resolves to and the unresolved
\* labels depend only on the set of detected labels: a run over the same
\* labels, enumerated in any order and detected in any order or multiplicity,
\* gives the report of the run before; and no label matches two table keys
\* up to case.
C7_Deterministic ==
    /\ \A l \in UniqueLabels : Cardinality(Matches(l)) <= 1
    /\ (SynthesisRan /\ prev.set /\ prev.labels = UniqueLabels) =>
          /\ Report(out).resolved = prev.resolved
          /\ Report(out).unresolved = prev.unresolved

C7_Witness ==
    /\ SynthesisRan
    /\ prev.set
    /\ prev.labels = {Short, short_lc, Unknown_defect}
    /\ Len(uploaded_file.boxes) = 3
    /\ uploaded_file.boxes[1].cls = Unknown_defect
    /\ ResolvedSeq[1].label = short_lc

\* C3: the detection page is gated by login: whenever the session is on the
\* prediction page it is logged in, as a user of the credential store; a
\* session becomes logged in (or changes its user) only by a log-in submit
\* whose username is in users with the digest of the submitted password; and
\* a logout leaves the prediction page.
C3_LoginGate ==
    /\ [](page = "prediction" => (logged_in /\ username \in DOMAIN users))
    /\ [][(logged_in' /\ (~logged_in \/ username' # username)) =>
             \E p \in Passwords :
                 /\ LoginSubmit(username', p)
                 /\ username' \in DOMAIN users
                 /\ users[username'] = sha256(p)]_vars
    /\ [][(logged_in /\ ~logged_in') => page' = "home"]_vars

C3_Witness ==
    /\ page = "prediction"
    /\ logged_in
    /\ username = "alice"
    /\ uploaded_file.kind = "image"

\* An image for which the model returns a result with no boxes.
NoBoxImage == [kind |-> "image", has_result |-> TRUE, boxes |-> <<>>]

\* C4: when the model returns no boxes, resolved and unresolved are empty,
\* no solution, no warning and no error is rendered, and the page ends in
\* the 'No defects were detected' message.
C4_NoDetections ==
    (page = "prediction" /\ uploaded_file = NoBoxImage /\ InferenceRan) =>
        /\ ResolvedSeq = <<>>
        /\ UnresolvedSeq = <<>>
        /\ ~SynthesisRan
        /\ \A i \in DOMAIN out : out[i].kind \notin {"error", "exception", "warning"}
        /\ out[Len(out)] = Msg("info", "No defects were detected in this image.")

C4_Witness ==
    /\ page = "prediction"
    /\ uploaded_file = NoBoxImage
    /\ InferenceRan

\* The detections of the scenario: Short 0.91, short 0.40, Unknown_defect 0.30.
ScenarioBoxes ==
    <<[cls |-> Short, conf |-> 91], [cls |-> short_lc, conf |-> 40],
      [cls |-> Unknown_defect, conf |-> 30]>>

ShortSolution ==
    "1. Use a multimeter to locate the short. 2. Carefully scrape the copper to remove the short. 3. Check for any solder bridges or foreign material causing the short."

\* C5: a detected label with no case-insensitive match among the keys gets
\* the 'No solution available' warning and no error, also when other labels
\* resolve; for Short, short, Unknown_defect both Short and short resolve to
\* the Short record's text and unresolved is exactly Unknown_defect.
C5_Unresolved ==
    SynthesisRan =>
        /\ \A l \in UniqueLabels :
              Matches(l) = {} =>
                  /\ Count("no_solution", l) = 1
                  /\ Count("solution", l) = 0
        /\ \A i \in DOMAIN out : out[i].kind \notin {"error", "exception"}
        /\ uploaded_file.boxes = ScenarioBoxes =>
              /\ UniqueLabels = {Short, short_lc, Unknown_defect}
              /\ Report(out).resolved = {<<Short, ShortSolution>>, <<short_lc, ShortSolution>>}
              /\ Len(UnresolvedSeq) = 1
              /\ UnresolvedSeq[1].label = Unknown_defect

C5_Witness ==
    /\ SynthesisRan
    /\ uploaded_file.boxes = ScenarioBoxes
    /\ ResolvedLabels = {Short, short_lc}

\* The last call of load_model failed: it returned None or raised.
ModelLoadFailed == page = "prediction" /\ model_cache # "loaded"

\* C8: when the model fails to load the page shows the failure and nothing
\* else: no upload is held or decoded, the model is not invoked and the
\* synthesis is not reached.
C8_ModelUnavailable ==
    ModelLoadFailed =>
        /\ out \in {<<ModelFileError>>, <<UncaughtException>>}
        /\ uploaded_file = NoFile
        /\ ~InferenceRan
        /\ ~SynthesisRan

C8_Witness ==
    /\ ModelLoadFailed
    /\ model_cache = "none"
    /\ out = <<ModelFileError>>

\* C9: when the upload cannot be decoded the page shows the generic error
\* once and neither the inference nor the synthesis runs; the session state
\* is left as it was and the session goes on.
C9_MalformedUpload ==
    /\ [](uploaded_file = BadFile =>
             /\ out = <<ErrorOccurred>>
             /\ ~InferenceRan
             /\ ~SynthesisRan
             /\ logged_in /\ page = "prediction" /\ model_cache = "loaded")
    /\ [][(uploaded_file' = BadFile) =>
             (logged_in' = logged_in /\ page' = page /\ users' = users
              /\ username' = username)]_vars
    /\ [](uploaded_file = BadFile => (ENABLED RemoveFile /\ ENABLED Logout))

C9_Witness ==
    /\ uploaded_file = BadFile
    /\ username = "alice"

\* C10: the credential store only grows and never overwrites; the seeded
\* accounts stay; a sign-up submit with an empty username, an empty password
\* or a taken username leaves users and page unchanged, and a log-in submit
\* leaves users unchanged.
C10_StoreGrows ==
    /\ [](\A u \in DOMAIN SeedUsers : u \in DOMAIN users /\ users[u] = SeedUsers[u])
    /\ [][/\ \A u \in DOMAIN users : u \in DOMAIN users' /\ users'[u] = users[u]
          /\ \A u \in Usernames, p \in Passwords :
                (SignupSubmit(u, p) /\ (u = "" \/ p = "" \/ u \in DOMAIN users)) =>
                    (users' = users /\ page' = page)
          /\ \A u \in Usernames, p \in Passwords :
                LoginSubmit(u, p) => users' = users]_vars

C10_Witness ==
    /\ "alice" \in DOMAIN users
    /\ users["alice"] = sha256("pw")
    /\ page = "signup"
    /\ out = <<Msg("error", "Username already exists. Please choose a different one.")>>

====
